---- MODULE Spec2Model ----
(***************************************************************************)
(* Matching engine of the DEEL transaction system (src/deel_app.py,         *)
(* class DeelTransactionSystem): name extraction, name similarity, user    *)
(* matching and transaction similarity search.                             *)
(*                                                                         *)
(* A Python string is a sequence of one-character strings.  A float that   *)
(* the code computes from set sizes is the exact rational <<num, den>>     *)
(* with den > 0; round(x, 3) is an integer number of thousandths.          *)
(***************************************************************************)
EXTENDS Integers, Sequences, FiniteSets, TLC

(***************************************************************************)
(* Characters and the character classes of Python's re module              *)
(***************************************************************************)
UpperCase == {"A","B","C","D","E","F","G","H","I","J","K","L","M",
              "N","O","P","Q","R","S","T","U","V","W","X","Y","Z"}

LowerCase == {"a","b","c","d","e","f","g","h","i","j","k","l","m",
              "n","o","p","q","r","s","t","u","v","w","x","y","z"}

Digit == {"0","1","2","3","4","5","6","7","8","9"}

\* str.strip(), str.split() and \s
WhiteSpace == {" ", "\t", "\n"}

\* the Greek capital and small letter mu: letters for \w and str.lower(),
\* outside [A-Z] and [a-z]
NonAsciiUpper == {"GreekCapitalMu"}

NonAsciiLower == {"GreekSmallMu"}

Punctuation == {",", ".", "-", "/", "#", "_", "'", "&", "!"}

Char == UpperCase \cup LowerCase \cup Digit \cup WhiteSpace
          \cup NonAsciiUpper \cup NonAsciiLower \cup Punctuation

\* \w
WordChar == UpperCase \cup LowerCase \cup Digit \cup NonAsciiUpper
              \cup NonAsciiLower \cup {"_"}

\* [^,]
NotComma == Char \ {","}

\* . (without re.DOTALL)
Dot == Char \ {"\n"}

\* [\w\s\.\-], the characters that re.sub(r'[^\w\s\.\-]', ' ', name) keeps
KeptInName == WordChar \cup WhiteSpace \cup {".", "-"}

LowerOf ==
  [c \in UpperCase \cup NonAsciiUpper |->
     CASE c = "A" -> "a" [] c = "B" -> "b" [] c = "C" -> "c" [] c = "D" -> "d"
       [] c = "E" -> "e" [] c = "F" -> "f" [] c = "G" -> "g" [] c = "H" -> "h"
       [] c = "I" -> "i" [] c = "J" -> "j" [] c = "K" -> "k" [] c = "L" -> "l"
       [] c = "M" -> "m" [] c = "N" -> "n" [] c = "O" -> "o" [] c = "P" -> "p"
       [] c = "Q" -> "q" [] c = "R" -> "r" [] c = "S" -> "s" [] c = "T" -> "t"
       [] c = "U" -> "u" [] c = "V" -> "v" [] c = "W" -> "w" [] c = "X" -> "x"
       [] c = "Y" -> "y" [] c = "Z" -> "z"
       [] c = "GreekCapitalMu" -> "GreekSmallMu"]

ToLowerChar(c) == IF c \in DOMAIN LowerOf THEN LowerOf[c] ELSE c

(***************************************************************************)
(* str methods                                                             *)
(***************************************************************************)
Min(S) == CHOOSE x \in S : \A y \in S : x <= y

Max(S) == 0 - Min({0 - x : x \in S})

\* s[i:j+1] of a string, the empty string when the slice is empty
Slice(s, i, j) == IF i > j THEN <<>> ELSE SubSeq(s, i, j)

\* str.lower()
lower(s) == IF s = <<>> THEN <<>> ELSE [i \in 1..Len(s) |-> ToLowerChar(s[i])]

\* str.strip()
strip(s) ==
  LET keep == {i \in 1..Len(s) : s[i] \notin WhiteSpace}
  IN  IF keep = {} THEN <<>> ELSE SubSeq(s, Min(keep), Max(keep))

\* str.replace(old, new) from position i on: the occurrences of old are
\* taken left to right and do not overlap
RECURSIVE replace_from(_, _, _, _)
replace_from(s, old, new, i) ==
  LET found == {j \in i..(Len(s) - Len(old) + 1) :
                  SubSeq(s, j, j + Len(old) - 1) = old}
  IN  IF found = {} THEN Slice(s, i, Len(s))
      ELSE Slice(s, i, Min(found) - 1) \o new
             \o replace_from(s, old, new, Min(found) + Len(old))

replace(s, old, new) == replace_from(s, old, new, 1)

\* the number of consecutive characters of class C from position pos on
RunLen(s, C, pos) ==
  LET stops == {j \in pos..Len(s) : s[j] \notin C}
  IN  IF pos > Len(s) \/ s[pos] \notin C THEN 0
      ELSE IF stops = {} THEN Len(s) - pos + 1
      ELSE Min(stops) - pos

\* re.findall of a greedy one-class pattern C+: the maximal runs, in order
RECURSIVE RunsFrom(_, _, _)
RunsFrom(s, C, i) ==
  LET found == {j \in i..Len(s) : s[j] \in C}
      from == Min(found)
      n == RunLen(s, C, from)
  IN  IF found = {} THEN <<>>
      ELSE <<SubSeq(s, from, from + n - 1)>> \o RunsFrom(s, C, from + n)

\* str.split() without argument
split(s) == RunsFrom(s, Char \ WhiteSpace, 1)

\* re.findall(r'[a-z]+', s)
findall_alpha(s) == RunsFrom(s, LowerCase, 1)

\* re.findall(r'\b\w+\b', s)
findall_word(s) == RunsFrom(s, WordChar, 1)

\* set(seq)
ToSet(seq) == {seq[i] : i \in 1..Len(seq)}

(***************************************************************************)
(* re.search for the templates of extract_name_from_text.  A template is   *)
(* a concatenation of literal characters, \s+ (greedy), the lazy capture   *)
(* ([^,]+?) and .* (greedy); the matcher backtracks in the order of        *)
(* Python's re: leftmost start, then each quantifier in turn, a greedy one *)
(* from its longest length down and the lazy one from its shortest up.     *)
(***************************************************************************)
Lit(str) == <<[t |-> "lit", str |-> str]>>

WsRun == <<[t |-> "ws", str |-> <<>>]>>

Capture == <<[t |-> "cap", str |-> <<>>]>>

AnyRun == <<[t |-> "any", str |-> <<>>]>>

NoMatch == [ok |-> FALSE, start |-> 0, end |-> 0, cap |-> <<0, 0>>]

\* the lengths, in the order in which the matcher tries them, that the
\* quantified element pat[k] can take at position pos
LengthsOf(el, s, pos) ==
  CASE el.t = "ws" -> [lo |-> 1, hi |-> RunLen(s, WhiteSpace, pos),
                       greedy |-> TRUE]
    [] el.t = "cap" -> [lo |-> 1, hi |-> RunLen(s, NotComma, pos),
                        greedy |-> FALSE]
    [] el.t = "any" -> [lo |-> 0, hi |-> RunLen(s, Dot, pos),
                        greedy |-> TRUE]

\* match pat[k..] against s from position pos, under re.IGNORECASE
RECURSIVE MatchAt(_, _, _, _, _, _)
MatchAt(pat, k, s, start, pos, cap) ==
  IF k > Len(pat)
  THEN [ok |-> TRUE, start |-> start, end |-> pos - 1, cap |-> cap]
  ELSE LET el == pat[k] IN
    IF el.t = "lit"
    THEN IF /\ pos + Len(el.str) - 1 <= Len(s)
            /\ \A i \in 1..Len(el.str) :
                 ToLowerChar(s[pos + i - 1]) = ToLowerChar(el.str[i])
         THEN MatchAt(pat, k + 1, s, start, pos + Len(el.str), cap)
         ELSE NoMatch
    ELSE LET r == LengthsOf(el, s, pos)
             rest == [len \in r.lo..r.hi |->
                        MatchAt(pat, k + 1, s, start, pos + len,
                                IF el.t = "cap" THEN <<pos, pos + len - 1>>
                                ELSE cap)]
             good == {len \in r.lo..r.hi : rest[len].ok}
         IN  IF good = {} THEN NoMatch
             ELSE rest[IF r.greedy THEN Max(good) ELSE Min(good)]

\* re.search(pat, s, re.IGNORECASE)
search(pat, s) ==
  LET at == [i \in 1..Len(s) |-> MatchAt(pat, 1, s, i, i, <<0, 0>>)]
      starts == {i \in 1..Len(s) : at[i].ok}
  IN  IF starts = {} THEN NoMatch ELSE at[Min(starts)]

ForDeel == WsRun \o Lit(<<"f","o","r">>) \o WsRun \o Lit(<<"D","e","e","l">>)

\* the list patterns of extract_name_from_text
patterns ==
  << Lit(<<"F","r","o","m">>) \o WsRun \o Capture \o ForDeel,
     Lit(<<"f","r","o","m">>) \o WsRun \o Capture \o ForDeel,
     Lit(<<"T","r","a","n","s","f","e","r"," ","f","r","o","m">>) \o WsRun \o Capture \o ForDeel,
     Lit(<<"P","a","y","m","e","n","t"," ","f","r","o","m">>) \o WsRun \o Capture \o ForDeel,
     Lit(<<"R","e","c","e","i","v","e","d"," ","f","r","o","m">>) \o WsRun \o Capture \o ForDeel,
     Lit(<<"R","e","q","u","e","s","t"," ","f","r","o","m">>) \o WsRun \o Capture \o ForDeel,
     Lit(<<"T","o"," ","D","e","e","l">>) \o AnyRun \o Lit(<<"F","r","o","m">>) \o WsRun \o Capture \o ForDeel,
     Lit(<<"D","e","e","l"," ","p","a","y","m","e","n","t"," ","f","r","o","m">>) \o WsRun \o Capture \o ForDeel,
     Lit(<<"F","r","o","m">>) \o WsRun \o Capture \o WsRun \o Lit(<<",">>) \o ForDeel,
     Lit(<<"F","r","o","m">>) \o WsRun \o Capture \o WsRun \o Lit(<<",">>) \o WsRun \o Lit(<<"r","e","f">>)
        \o AnyRun \o Lit(<<"f","o","r">>) \o WsRun \o Lit(<<"D","e","e","l">>),
     Lit(<<"F","r","o","m">>) \o WsRun \o Capture \o WsRun \o Lit(<<"r","e","f">>)
        \o AnyRun \o Lit(<<"f","o","r">>) \o WsRun \o Lit(<<"D","e","e","l">>),
     Lit(<<"r","e","f">>) \o AnyRun \o Lit(<<"F","r","o","m">>) \o WsRun \o Capture \o ForDeel >>

(***************************************************************************)
(* extract_name_from_text                                                  *)
(***************************************************************************)
\* re.sub(r'[^\w\s\.\-]', ' ', name)
sub_other(s) ==
  IF s = <<>> THEN <<>>
  ELSE [i \in 1..Len(s) |-> IF s[i] \in KeptInName THEN s[i] ELSE " "]

\* re.sub(r'\s+', ' ', name)
RECURSIVE sub_spaces_from(_, _)
sub_spaces_from(s, i) ==
  LET found == {j \in i..Len(s) : s[j] \in WhiteSpace}
      from == Min(found)
  IN  IF found = {} THEN Slice(s, i, Len(s))
      ELSE Slice(s, i, from - 1) \o <<" ">>
             \o sub_spaces_from(s, from + RunLen(s, WhiteSpace, from))

sub_spaces(s) == sub_spaces_from(s, 1)

\* re.sub(r'\s+X$', '', s), tails being the positions from which s matches
\* X up to its end: the leftmost whitespace run that ends before such a
\* position is deleted with the rest of s
sub_suffix(s, tails) ==
  LET from == {i \in 1..Len(s) :
                 \E m \in 1..RunLen(s, WhiteSpace, i) : i + m \in tails}
  IN  IF from = {} THEN s ELSE Slice(s, 1, Min(from) - 1)

\* \d+
IsDigits(t) == t # <<>> /\ \A k \in 1..Len(t) : t[k] \in Digit

\* \d+$
DigitTails(s) == {i \in 1..Len(s) : IsDigits(Slice(s, i, Len(s)))}

\* (jr|sr|ii|iii|iv|test|debit|credit|err#) under re.IGNORECASE
NoiseTokens == {<<"j","r">>, <<"s","r">>, <<"i","i">>, <<"i","i","i">>, <<"i","v">>, <<"t","e","s","t">>,
                <<"d","e","b","i","t">>, <<"c","r","e","d","i","t">>, <<"e","r","r","#">>}

IsNoise(t) == lower(t) \in NoiseTokens

\* (jr|...|err#)$
NoiseTails(s) == {i \in 1..Len(s) : IsNoise(Slice(s, i, Len(s)))}

\* [A-Z][a-z]+ at position i: its length, 0 when it does not match
CapWordLen(s, i) ==
  IF i + 1 <= Len(s) /\ s[i] \in UpperCase /\ s[i + 1] \in LowerCase
  THEN 1 + RunLen(s, LowerCase, i + 1)
  ELSE 0

\* (?:\s+[A-Z][a-z]+) repeated greedily at most left times after position e
RECURSIVE MoreWords(_, _, _)
MoreWords(s, e, left) ==
  IF left = 0 THEN e
  ELSE LET w == RunLen(s, WhiteSpace, e + 1)
           n == CapWordLen(s, e + 1 + w)
       IN  IF w = 0 \/ n = 0 THEN e ELSE MoreWords(s, e + w + n, left - 1)

\* the end of the match of a name pattern at position i, 0 when none
NameRunEnd(s, i, reps) ==
  LET n == CapWordLen(s, i)
      e == MoreWords(s, i + n - 1, reps)
  IN  IF n = 0 \/ e = i + n - 1 THEN 0 ELSE e

\* re.findall of a name pattern from position i on
RECURSIVE findall_names(_, _, _)
findall_names(s, i, reps) ==
  LET found == {j \in i..Len(s) : NameRunEnd(s, j, reps) # 0}
      from == Min(found)
      e == NameRunEnd(s, from, reps)
  IN  IF found = {} THEN <<>>
      ELSE <<SubSeq(s, from, e)>> \o findall_names(s, e + 1, reps)

\* name_patterns, each by the number of repetitions of its second word:
\* ([A-Z][a-z]+(?:\s+[A-Z][a-z]+)+) and ([A-Z][a-z]+\s+[A-Z][a-z]+)
name_patterns(s) == <<Len(s), 1>>

\* the loop with the length test len(match) > 2
FirstNameRunShort(matches) ==
  LET good == {i \in 1..Len(matches) :
                 Len(split(matches[i])) >= 2 /\ Len(matches[i]) > 2}
  IN  IF good = {} THEN <<>> ELSE matches[Min(good)]

\* the loop over the matches of one name pattern
FirstNameRun(matches) ==
  LET good == {i \in 1..Len(matches) :
                 Len(split(matches[i])) >= 2 /\ Len(matches[i]) > 5}
  IN  IF good = {} THEN <<>> ELSE matches[Min(good)]

\* the loop over name_patterns
CapitalizedFallback(text) ==
  LET found == {p \in 1..Len(name_patterns(text)) :
                  FirstNameRun(findall_names(text, 1, name_patterns(text)[p])) # <<>>}
  IN  IF found = {} THEN <<>>
      ELSE FirstNameRun(findall_names(text, 1, name_patterns(text)[Min(found)]))

\* text.replace('  ', ' ').replace('   ', ' ').strip()
CollapseSpaces(text) ==
  strip(replace(replace(text, <<" "," ">>, <<" ">>), <<" "," "," ">>, <<" ">>))

\* the loop over patterns from template k on: the first template that
\* matches and its match, template 0 when none does
RECURSIVE FirstTemplateFrom(_, _)
FirstTemplateFrom(text, k) ==
  IF k > Len(patterns) THEN [template |-> 0, match |-> NoMatch]
  ELSE LET m == search(patterns[k], text)
       IN  IF m.ok THEN [template |-> k, match |-> m]
           ELSE FirstTemplateFrom(text, k + 1)

\* the loop over reversed(patterns)
RECURSIVE LastTemplateFrom(_, _)
LastTemplateFrom(text, k) ==
  IF k < 1 THEN [template |-> 0, match |-> NoMatch]
  ELSE LET m == search(patterns[k], text)
       IN  IF m.ok THEN [template |-> k, match |-> m]
           ELSE LastTemplateFrom(text, k - 1)

LastTemplate(text) == LastTemplateFrom(text, Len(patterns))

FirstTemplate(text) == FirstTemplateFrom(text, 1)

\* the post-processing with the noise token stripped before the digits
CleanCaptureNoiseFirst(group) ==
  LET name1 == strip(group)
      name2 == sub_other(name1)
      name3 == strip(sub_spaces(name2))
      name4 == sub_suffix(name3, NoiseTails(name3))
  IN  sub_suffix(name4, DigitTails(name4))

\* the post-processing of the captured group, up to name.split()
CleanCapture(group) ==
  LET name1 == strip(group)
      name2 == sub_other(name1)
      name3 == strip(sub_spaces(name2))
      name4 == sub_suffix(name3, DigitTails(name3))
  IN  sub_suffix(name4, NoiseTails(name4))

\* words[1] in the place of words[-1]
FirstTwoTokens(name) ==
  LET words == split(name)
  IN  IF Len(words) >= 2 THEN words[1] \o <<" ">> \o words[2]
      ELSE IF Len(words) = 1 THEN words[1]
      ELSE name

\* the return statements of the template branch
TwoTokenForm(name) ==
  LET words == split(name)
  IN  IF Len(words) >= 2 THEN words[1] \o <<" ">> \o words[Len(words)]
      ELSE IF Len(words) = 1 THEN words[1]
      ELSE name

\* extract_name_from_text with its intermediate values: template is the
\* index of the template that matched (0: none), name the cleaned capture
ExtractTrace(text0) ==
  IF text0 = <<>>
  THEN [ret |-> <<>>, template |-> 0, name |-> <<>>, text |-> <<>>]
  ELSE LET text == CollapseSpaces(text0)
           first == FirstTemplate(text)
       IN  IF first.template # 0
           THEN LET m == first.match
                    name == CleanCapture(SubSeq(text, m.cap[1], m.cap[2]))
                IN  [ret |-> TwoTokenForm(name), template |-> first.template,
                     name |-> name, text |-> text]
           ELSE [ret |-> CapitalizedFallback(text), template |-> 0,
                 name |-> <<>>, text |-> text]

extract_name_from_text(text) == ExtractTrace(text).ret

(***************************************************************************)
(* calculate_name_similarity                                               *)
(***************************************************************************)
\* comparison of the rationals <<num, den>>, den > 0
RatGeq(x, y) == x[1] * y[2] >= y[1] * x[2]

RatEq(x, y) == x[1] * y[2] = y[1] * x[2]

Zero == <<0, 1>>

One == <<1, 1>>

\* the score returned as it is
unclamped(score) == score

\* min(1.0, score)
min_one(score) == IF RatGeq(score, One) THEN One ELSE score

\* the first tokens compared instead of the first characters
same_first_token(n1, n2) == split(n1)[1] = split(n2)[1]

\* n1[0] == n2[0]
same_first_char(n1, n2) == n1 # <<>> /\ n2 # <<>> /\ n1[1] = n2[1]

\* the space looked for in n1 only
same_last_token_one_sided(n1, n2) ==
  /\ " " \in ToSet(n1)
  /\ split(n1)[Len(split(n1))] = split(n2)[Len(split(n2))]

\* ' ' in n1 and ' ' in n2 and n1.split()[-1] == n2.split()[-1]
same_last_token(n1, n2) ==
  /\ " " \in ToSet(n1)
  /\ " " \in ToSet(n2)
  /\ split(n1)[Len(split(n1))] = split(n2)[Len(split(n2))]

\* the name trimmed without being lower-cased
normalized_no_lower(name) == strip(name)

\* name.lower().strip()
normalized(name) == strip(lower(name))

\* The floats of the code are the exact rationals here.  The two differ in
\* the last bits only: a float sum can fall just under a value that the
\* exact sum reaches (0.7 * 3/8 + 0.3 * 1/8 is 0.29999999999999993 as a
\* float); no name of this model meets such a case.
calculate_name_similarity(name1, name2) ==
  IF name1 = <<>> \/ name2 = <<>> THEN Zero
  ELSE LET n1 == normalized(name1)
           n2 == normalized(name2)
           words1 == ToSet(findall_alpha(n1))
           words2 == ToSet(findall_alpha(n2))
           common_words == Cardinality(words1 \cap words2)
           all_words == Cardinality(words1 \cup words2)
           chars1 == ToSet(replace(n1, <<" ">>, <<>>))
           chars2 == ToSet(replace(n2, <<" ">>, <<>>))
           common_chars == Cardinality(chars1 \cap chars2)
           all_chars == Cardinality(chars1 \cup chars2)
           first == IF same_first_char(n1, n2) THEN 1 ELSE 0
           last == IF same_last_token(n1, n2) THEN 2 ELSE 0
       IN  IF n1 = n2 THEN One
           ELSE IF words1 = {} \/ words2 = {} THEN Zero
           ELSE min_one(<<7 * common_words * all_chars
                            + 3 * common_chars * all_words
                            + (first + last) * all_words * all_chars,
                          10 * all_words * all_chars>>)

\* 1000 * x lies exactly half way between two integers
is_tie(x) == 2 * ((1000 * x[1]) % x[2]) = x[2]

\* round(similarity, 3) in thousandths.  The float that the code rounds is
\* not the exact value x, so when x lies half way between two thousandths
\* either neighbour can come out: up tells which one does.
round3(x, up) ==
  LET q == (1000 * x[1]) \div x[2]
      r == (1000 * x[1]) % x[2]
  IN  IF 2 * r > x[2] THEN q + 1
      ELSE IF 2 * r < x[2] THEN q
      ELSE IF up THEN q + 1 ELSE q

(***************************************************************************)
(* list.sort(key=..., reverse=True): stable, descending                    *)
(***************************************************************************)
\* keys[i] is the key of list[i], a rational.  An element goes behind every
\* element with a larger key and behind the elements with an equal key that
\* precede it in list.
sort_reverse(list, keys) ==
  LET n == Len(list)
      place(i) == Cardinality({j \in 1..n : ~RatGeq(keys[i], keys[j])})
                    + Cardinality({j \in 1..(i - 1) : RatEq(keys[i], keys[j])})
                    + 1
  IN  IF list = <<>> THEN <<>>
      ELSE [p \in 1..n |-> list[CHOOSE i \in 1..n : place(i) = p]]

(***************************************************************************)
(* find_user_matches_for_transaction                                       *)
(***************************************************************************)
\* the id compared as typed
same_id_exact(id, transaction_input) == id = transaction_input

\* the ids compared in lower case, the surrounding whitespace kept
same_id_no_strip(id, transaction_input) == lower(id) = lower(transaction_input)

\* str(t['id']).strip().lower() == str(transaction_input).strip().lower()
same_id(id, transaction_input) ==
  lower(strip(id)) = lower(strip(transaction_input))

\* the loop that looks the input up among the transaction ids
lookup_transaction(trans, transaction_input) ==
  LET hits == {i \in 1..Len(trans) : same_id(trans[i].id, transaction_input)}
  IN  IF hits = {} THEN 0 ELSE Min(hits)

\* the default threshold of the search page in the place of 0.3
LowThreshold == <<1, 10>>

\* similarity >= 0.3
MatchThreshold == <<3, 10>>

\* the loop over self.users; ups holds the positions of the users whose
\* score rounds up when it is a tie
RECURSIVE score_users(_, _, _, _)
score_users(userlist, extracted_name, i, ups) ==
  IF i > Len(userlist) THEN <<>>
  ELSE LET user == userlist[i]
           similarity == calculate_name_similarity(extracted_name, user.name)
       IN  IF user.name = <<>>
           THEN score_users(userlist, extracted_name, i + 1, ups)
           ELSE IF RatGeq(similarity, MatchThreshold)
           THEN <<[id |-> user.id, name |-> user.name,
                   match_metric |-> round3(similarity, i \in ups)]>>
                  \o score_users(userlist, extracted_name, i + 1, ups)
           ELSE score_users(userlist, extracted_name, i + 1, ups)

\* the key of a sort without reverse=True
ascending_key(x) == <<0 - x.match_metric, 1>>

\* key=lambda x: x['match_metric']
match_metric_key(x) == <<x.match_metric, 1>>

\* matches.sort(key=lambda x: x['match_metric'], reverse=True)
sort_matches(matches) ==
  sort_reverse(matches, [i \in 1..Len(matches) |-> match_metric_key(matches[i])])

UserInput == <<"U","s","e","r"," ","I","n","p","u","t">>

\* the second component left empty
EmptyName == <<>>

NoNameMessage == <<"N","o"," ","n","a","m","e"," ","c","o","u","l","d"," ","b","e"," ","e","x","t","r","a","c","t","e","d"," ","f","r","o","m"," ","d","e","s","c","r","i","p","t","i","o","n">>

\* the description that the input resolves to
resolved_description(trans, transaction_input) ==
  IF lookup_transaction(trans, transaction_input) # 0
  THEN trans[lookup_transaction(trans, transaction_input)].description
  ELSE transaction_input

\* the positions of the users whose score is a tie of round(similarity, 3)
tie_users(trans, userlist, transaction_input) ==
  UNION {{i \in 1..Len(userlist) :
            is_tie(calculate_name_similarity(name, userlist[i].name))} :
         name \in {extract_name_from_text(
                     resolved_description(trans, transaction_input))}}

\* the users scored whether a name is extracted or not
match_result_scored(userlist, transaction, extracted_name, ups) ==
  [matches |-> sort_matches(score_users(userlist, extracted_name, 1, ups)),
   extracted_name |-> extracted_name,
   transaction |-> transaction]

\* what the function does once the name is extracted: the early return
\* without a name, else the scored and sorted matches
match_result(userlist, transaction, extracted_name, ups) ==
  IF extracted_name = <<>>
  THEN [matches |-> <<>>, extracted_name |-> NoNameMessage,
        transaction |-> transaction]
  ELSE [matches |-> sort_matches(score_users(userlist, extracted_name, 1, ups)),
        extracted_name |-> extracted_name,
        transaction |-> transaction]

\* the triple that find_user_matches_for_transaction returns (the singleton
\* set binds extracted_name to the value of the one extraction)
find_user_matches_for_transaction(trans, userlist, transaction_input, ups) ==
  LET k == lookup_transaction(trans, transaction_input)
      description == IF k # 0 THEN trans[k].description ELSE transaction_input
      transaction == IF k # 0 THEN trans[k]
                     ELSE [id |-> UserInput, description |-> description]
  IN  CHOOSE result \in
        {match_result(userlist, transaction, extracted_name, ups) :
           extracted_name \in {extract_name_from_text(description)}} : TRUE

(***************************************************************************)
(* find_similar_transactions                                               *)
(***************************************************************************)
\* the embedding as the loop over list(query_words)[:10] leaves it
embedding_unpadded(order, common_words) ==
  LET words == Slice(order, 1, Min({10, Len(order)}))
  IN  [i \in 1..Len(words) |-> IF words[i] \in common_words THEN 1 ELSE 0]

\* the loop over list(query_words)[:10], the padding loop and embedding[:10]
embedding_of(order, common_words) ==
  LET words == Slice(order, 1, Min({10, Len(order)}))
      embedding == [i \in 1..Len(words) |->
                      IF words[i] \in common_words THEN 1 ELSE 0]
      padded == [i \in 1..Max({10, Len(embedding)}) |->
                   IF i <= Len(embedding) THEN embedding[i] ELSE 0]
  IN  Slice(padded, 1, Min({10, Len(padded)}))

\* the loop over self.transactions.  common is the local common_words: it
\* is assigned only when the description has a word, and otherwise keeps
\* the value of the last such transaction, or is unbound.  A read of the
\* unbound local raises UnboundLocalError.
RECURSIVE similar_loop(_, _, _, _, _, _)
similar_loop(trans, query_words, order, threshold, i, common) ==
  IF i > Len(trans) THEN [raised |-> FALSE, results |-> <<>>]
  ELSE LET t == trans[i]
           desc_words == ToSet(findall_word(lower(t.description)))
           both == query_words # {} /\ desc_words # {}
           common2 == IF both
                      THEN [bound |-> TRUE, set |-> query_words \cap desc_words]
                      ELSE common
           similarity ==
             IF both
             THEN <<Cardinality(query_words \cap desc_words),
                    Cardinality(query_words \cup desc_words)>>
             ELSE Zero
       IN  IF RatGeq(similarity, threshold)
           THEN IF ~common2.bound
                THEN [raised |-> TRUE, results |-> <<>>]
                ELSE LET rest == similar_loop(trans, query_words, order,
                                              threshold, i + 1, common2)
                     IN  [raised |-> rest.raised,
                          results |->
                            IF rest.raised THEN <<>>
                            ELSE <<[id |-> t.id,
                                    description |-> t.description,
                                    amount |-> t.amount,
                                    embedding |-> embedding_of(order, common2.set),
                                    similarity |-> similarity]>>
                                   \o rest.results]
           ELSE similar_loop(trans, query_words, order, threshold, i + 1,
                             common2)

\* results.sort(key=lambda x: x['_similarity'], reverse=True)
sort_results(results) ==
  sort_reverse(results, [i \in 1..Len(results) |-> results[i].similarity])

\* results[:top_k + 1]
first_top_k_plus_one(results, top_k) ==
  Slice(results, 1, IF top_k + 1 < Len(results) THEN top_k + 1 ELSE Len(results))

\* results[:top_k]
first_top_k(results, top_k) ==
  IF top_k >= 0
  THEN Slice(results, 1, IF top_k < Len(results) THEN top_k ELSE Len(results))
  ELSE Slice(results, 1, Len(results) + top_k)

\* del r['_similarity']
del_similarity(results) ==
  IF results = <<>> THEN <<>>
  ELSE [i \in 1..Len(results) |->
          [id |-> results[i].id, description |-> results[i].description,
           amount |-> results[i].amount, embedding |-> results[i].embedding]]

\* the orders in which list(query_words) can enumerate the set
RECURSIVE orders_of(_)
orders_of(S) ==
  IF S = {} THEN {<<>>}
  ELSE UNION {{<<x>> \o o : o \in orders_of(S \ {x})} : x \in S}

\* the largest set of query words of which every order is taken
MaxPermuted == 3

\* the different tokens in the order of their first occurrence
distinct_tokens(tokens) ==
  LET firsts == {i \in 1..Len(tokens) :
                   \A j \in 1..(i - 1) : tokens[j] # tokens[i]}
  IN  [p \in 1..Cardinality(firsts) |->
         tokens[CHOOSE i \in firsts :
                  Cardinality({j \in firsts : j < i}) = p - 1]]

rotations(seq) ==
  {[i \in 1..Len(seq) |-> seq[((i + k - 1) % Len(seq)) + 1]] :
     k \in 0..(Len(seq) - 1)}

reversed(seq) == [i \in 1..Len(seq) |-> seq[Len(seq) + 1 - i]]

\* list(query_words): a set of strings is enumerated in the order of the
\* hashes, which differ from one process to the next, so that no order is
\* excluded.  Every order is taken for up to MaxPermuted words; for more
\* words the rotations of the first-occurrence order and of its reverse.
list_orders(tokens) ==
  IF Cardinality(ToSet(tokens)) <= MaxPermuted THEN orders_of(ToSet(tokens))
  ELSE rotations(distinct_tokens(tokens))
         \cup rotations(reversed(distinct_tokens(tokens)))

\* find_similar_transactions, given the enumeration order of query_words
find_similar_transactions(trans, query_text, threshold, top_k, order) ==
  LET tokens == findall_word(lower(query_text))
      token_count == Len(tokens)
      query_words == ToSet(tokens)
      loop == similar_loop(trans, query_words, order, threshold, 1,
                           [bound |-> FALSE, set |-> {}])
  IN  IF query_text = <<>> \/ token_count = 0
      THEN [raised |-> FALSE, results |-> <<>>, token_count |-> 0]
      ELSE IF loop.raised
      THEN [raised |-> TRUE, results |-> <<>>, token_count |-> 0]
      ELSE [raised |-> FALSE,
            results |-> del_similarity(
                          first_top_k(sort_results(loop.results), top_k)),
            token_count |-> token_count]

\* self.transactions were the results the stored dicts themselves
\* (results.append(t) with the embedding set on t)
transactions_aliased(trans, results) ==
  IF trans = <<>> THEN <<>>
  ELSE [i \in 1..Len(trans) |->
          LET same == {r \in 1..Len(results) :
                         /\ results[r].id = trans[i].id
                         /\ results[r].description = trans[i].description}
          IN  IF same = {} THEN trans[i] ELSE results[Min(same)]]

\* self.transactions when find_similar_transactions is over: the loop only
\* reads the stored dicts, and each result is a new dict built from the
\* values of t, so that '_similarity' and 'embedding' are keys of the
\* results alone
transactions_after_search(trans, results) ==
  IF trans = <<>> THEN <<>> ELSE [i \in 1..Len(trans) |-> trans[i]]

\* self.users were the matches the stored dicts themselves
users_aliased(userlist, matches) ==
  IF userlist = <<>> THEN <<>>
  ELSE [i \in 1..Len(userlist) |->
          LET same == {r \in 1..Len(matches) : matches[r].id = userlist[i].id}
          IN  IF same = {} THEN userlist[i] ELSE matches[Min(same)]]

\* self.users when find_user_matches_for_transaction is over: the loop only
\* reads user['id'] and user['name'], and each match is a new dict
users_after_match(userlist, matches) ==
  IF userlist = <<>> THEN <<>> ELSE [i \in 1..Len(userlist) |-> userlist[i]]

(***************************************************************************)
(* add_new_transaction, add_new_user, delete_transaction, delete_user      *)
(***************************************************************************)
\* str.isdigit()
isdigit(s) == s # <<>> /\ \A i \in 1..Len(s) : s[i] \in Digit

DigitValue(c) ==
  CASE c = "0" -> 0 [] c = "1" -> 1 [] c = "2" -> 2 [] c = "3" -> 3
    [] c = "4" -> 4 [] c = "5" -> 5 [] c = "6" -> 6 [] c = "7" -> 7
    [] c = "8" -> 8 [] c = "9" -> 9

DigitChar(n) == CHOOSE c \in Digit : DigitValue(c) = n

\* int(s) of a string of digits
RECURSIVE int_of(_)
int_of(s) ==
  IF Len(s) = 1 THEN DigitValue(s[1])
  ELSE 10 * int_of(SubSeq(s, 1, Len(s) - 1)) + DigitValue(s[Len(s)])

\* str(n) of a natural number
RECURSIVE str_of(_)
str_of(n) ==
  IF n < 10 THEN <<DigitChar(n)>>
  ELSE str_of(n \div 10) \o <<DigitChar(n % 10)>>

\* re.findall(r'\d+', s)
findall_digits(s) == RunsFrom(s, Digit, 1)

\* an id made of the number of stored transactions
new_transaction_id_by_count(trans) == str_of(1001 + Len(trans))

\* the id that add_new_transaction generates: one more than the largest id
\* that is a number, "1001" when there is none
new_transaction_id(trans) ==
  LET numeric_ids == {int_of(trans[i].id) :
                        i \in {k \in 1..Len(trans) : isdigit(trans[k].id)}}
  IN  IF numeric_ids # {} THEN str_of(Max(numeric_ids) + 1)
      ELSE <<"1", "0", "0", "1">>

\* the number of the id that add_new_user generates: one more than the
\* largest number found in an id, 1001 when there is none
new_user_number(userlist) ==
  LET numeric_ids ==
        UNION {{int_of(findall_digits(userlist[i].id)[n]) :
                  n \in 1..Len(findall_digits(userlist[i].id))} :
               i \in 1..Len(userlist)}
  IN  IF numeric_ids # {} THEN Max(numeric_ids) + 1 ELSE 1001

\* f"USER{new_num}"
new_user_id(userlist) == <<"U", "S", "E", "R">> \o str_of(new_user_number(userlist))

\* self.transactions.append(new_transaction)
add_new_transaction(trans, amount, description) ==
  Append(trans, [id |-> new_transaction_id(trans), amount |-> amount,
                 description |-> description])

\* self.users.append(new_user)
add_new_user(userlist, name) ==
  Append(userlist, [id |-> new_user_id(userlist), name |-> name])

\* list.pop(i)
pop(list, i) == Slice(list, 1, i - 1) \o Slice(list, i + 1, Len(list))

\* the loop of delete_transaction and of delete_user: the position of the
\* first record with the id, 0 when there is none
first_with_id(list, id) ==
  LET hits == {i \in 1..Len(list) : list[i].id = id}
  IN  IF hits = {} THEN 0 ELSE Min(hits)

(***************************************************************************)
(* The state: the two collections of the system, the call in progress and  *)
(* its result                                                              *)
(***************************************************************************)
VARIABLES transactions, users, call, ret

vars == <<transactions, users, call, ret>>

Idle == [op |-> "idle"]

\* records of create_sample_data, and records that load_or_create_data
\* reads from a CSV file (the amounts, floats without a fraction in the
\* code, are integers)
TxLiam ==
  [id |-> <<"c","a","q","j","J","t","r","I">>, amount |-> 88549,
   description |-> <<"F","r","o","m"," ","L","i","a","m"," ","J","."," ","J","o","h","n","s","o","n"," ","f","o","r"," ","D","e","e","l",","," ","r","e","f"," ","4","o","J","n","V","O","M","R","L","Z","f","t","A","C","C","/","/","4","0","3","7","0","5","2","1","7","8","4","3","/","/","C","N","T","R">>]

TxSamuel ==
  [id |-> <<"O","z","1","2","u","L","q","w">>, amount |-> 11517,
   description |-> <<"F","r","o","m"," ","S","a","m","u","e","l"," ","E","w","a","r","d","s",","," ","r","e","f"," ","x","Y","4","0","f","J","a","H","f","l","0","p","A","C","C","/","/","9","4","7","1","1","7","0","8","0","0","7","7","/","/","C","N","T","R">>]

TxZoey ==
  [id |-> <<"v","U","l","2","7","S","q","F">>, amount |-> 49811,
   description |-> <<"F","r","o","m"," ","z","o","e","y","h","o","w","a","r","d","f","o","r"," ","D","e","e","l",","," ","r","e","f"," ","5","a","z","Q","b","S","8","R","n","c","c","l","A","C","C","/","/","2","2","9","6","3","2","8","0","9","2","1","1","/","/","C","N","T","R">>]

TxRefOnly ==
  [id |-> <<"Q","H","T","6","W","j","t","E">>, amount |-> 92402,
   description |-> <<"r","e","f"," ","4","1","F","h","W","z","v","d","P","r","0","w","A","C","C","/","/","7","8","1","9","2","8","3","1","1","2","2","1","/","/","C","N","T","R">>]

TxNoDescription == [id |-> <<"1","0","0","1">>, amount |-> 100, description |-> <<>>]

TxPool == {TxLiam, TxSamuel, TxZoey, TxRefOnly, TxNoDescription}

UserLiam == [id |-> <<"U","4","N","N","Q","U","Q","I","e","E">>, name |-> <<"L","i","a","m"," ","J","o","h","n","s","o","n">>]

UserNoName == [id |-> <<"r","i","7","8","o","2","0","3","V","0">>, name |-> <<>>]

UserIsabella1 == [id |-> <<"T","o","A","D","2","r","z","v","G","A">>, name |-> <<"I","s","a","b","e","l","l","a"," ","W","i","l","s","o","n">>]

UserIsabella2 == [id |-> <<"V","f","Y","9","D","m","I","k","i","L">>, name |-> <<"I","s","a","b","e","l","l","a"," ","W","i","l","s","o","n">>]

UserWilliam == [id |-> <<"K","0","y","j","P","X","I","S","O","6">>, name |-> <<"W","i","l","l","i","a","m"," ","J","a","m","e","s"," ","M","a","r","t","i","n","e","z">>]

UserLayla == [id |-> <<"M","c","A","5","O","b","t","n","0","B">>, name |-> <<"L","a","y","l","a"," ","S","i","m","m","o","n","s">>]

UserPool == {UserLiam, UserNoName, UserIsabella1, UserIsabella2, UserLayla}

\* the longest collections that the initial states hold
MaxTx == 2

MaxUsers == 2

\* the largest top_k of a search
MaxTopK == 2

\* the sequences of at most n different elements of S
SeqsUpTo(S, n) ==
  UNION {{f \in [1..k -> S] : \A i, j \in 1..k : i # j => f[i] # f[j]} :
           k \in 0..n}

DefaultTx == <<TxLiam>>

DefaultUsers == <<UserLayla, UserLiam>>

\* DeelTransactionSystem.__init__: the collections as loaded from the CSV
\* files; one of the two is varied at a time
Init ==
  /\ \/ transactions \in SeqsUpTo(TxPool, MaxTx) /\ users = DefaultUsers
     \/ transactions = DefaultTx /\ users \in SeqsUpTo(UserPool, MaxUsers)
  /\ call = Idle
  /\ ret = <<>>

\* the inputs of find_user_matches_for_transaction: transaction ids and
\* description texts
MatchInputs ==
  {<<"c","a","q","j","J","t","r","I">>, <<" ","C","A","Q","J","J","T","R","I">>, <<"O","z","1","2","u","L","q","w">>, <<"Q","H","T","6","W","j","t","E">>, <<"1","0","0","1">>, <<>>,
   <<"F","r","o","m"," ","L","i","a","m"," ","J","."," ","J","o","h","n","s","o","n"," ","f","o","r"," ","D","e","e","l">>,
   <<"R","e","c","e","i","v","e","d"," ","f","r","o","m"," ","!","I","s","a","b","e","l"," ","W","i","l","s","o","n"," ","f","o","r"," ","D","e","e","l">>,
   <<"F","r","o","m"," ","W","i","l","l","i","a","m"," ","M","a","r","t","i","n","e","z"," ","f","o","r"," ","D","e","e","l">>}

FindUserMatches(transaction_input) ==
  /\ call = Idle
  /\ \E ups \in SUBSET tie_users(transactions, users, transaction_input) :
       ret' = find_user_matches_for_transaction(transactions, users,
                                                transaction_input, ups)
  /\ call' = [op |-> "match", transaction_input |-> transaction_input]
  /\ users' = users_after_match(users, ret'.matches)
  /\ UNCHANGED transactions

\* the inputs of find_similar_transactions
Queries == {<<"F","r","o","m"," ","L","i","a","m"," ","J","o","h","n","s","o","n">>, <<"r","e","f"," ","r","e","f">>, <<"/","/">>, <<>>}

Thresholds == {<<0, 1>>, <<1, 10>>, <<3, 10>>}

TopKs == (0 - 1)..MaxTopK

FindSimilar(query_text, threshold, top_k) ==
  /\ call = Idle
  /\ \E order \in list_orders(findall_word(lower(query_text))) :
       ret' = find_similar_transactions(transactions, query_text, threshold,
                                        top_k, order)
  /\ call' = [op |-> "search", query_text |-> query_text,
              threshold |-> threshold, top_k |-> top_k]
  /\ transactions' = transactions_after_search(transactions, ret'.results)
  /\ UNCHANGED users

\* the page has shown the result; Streamlit runs main() again for the next
\* interaction
Rerun ==
  /\ call # Idle
  /\ call' = Idle
  /\ ret' = <<>>
  /\ UNCHANGED <<transactions, users>>

Next ==
  \/ \E transaction_input \in MatchInputs : FindUserMatches(transaction_input)
  \/ \E query_text \in Queries, threshold \in Thresholds, top_k \in TopKs :
       FindSimilar(query_text, threshold, top_k)
  \/ Rerun

Spec == Init /\ [][Next]_vars

(***************************************************************************)
(* calculate_name_similarity on its own                                    *)
(***************************************************************************)
NameInputs ==
  {<<>>, <<" ">>, <<" "," ">>, <<"L","i","a","m"," ","J","o","h","n","s","o","n">>, <<" ","l","i","a","m"," ","J","O","H","N","S","O","N"," ">>, <<"L","i","a","m"," ","J"," ","J","o","h","n","s","o","n">>,
   <<"J","o","h","n","s","o","n">>, <<"J","o","h","n","s","o","n"," ","L","i","a","m">>, <<"L","i","a"," ","J","o","h","n","s","e","n">>, <<"1","2","3">>, <<"1","2","3"," ","4","5","6">>,
   <<"1","2"," ","J","o","h","n","s","o","n">>, <<"GreekCapitalMu", "GreekSmallMu">>, <<"A","n","n","\t","L","e","e">>,
   <<"B","o","b"," ","L","e","e">>, <<"W","i","l","l","i","a","m"," ","J","a","m","e","s"," ","M","a","r","t","i","n","e","z">>}

\* the directory that find_user_matches_for_transaction scores here
ScorerUsers == <<UserIsabella1, UserWilliam, UserNoName, UserLiam, UserIsabella2>>

InitScorer ==
  /\ transactions = <<>>
  /\ users = ScorerUsers
  /\ call = Idle
  /\ ret = <<>>

CalculateNameSimilarity(name1, name2) ==
  /\ call = Idle
  /\ ret' = calculate_name_similarity(name1, name2)
  /\ call' = [op |-> "similarity", name1 |-> name1, name2 |-> name2]
  /\ UNCHANGED <<transactions, users>>

NextScorer ==
  \/ \E name1 \in NameInputs, name2 \in NameInputs :
       CalculateNameSimilarity(name1, name2)
  \/ \E transaction_input \in MatchInputs : FindUserMatches(transaction_input)
  \/ Rerun

SpecScorer == InitScorer /\ [][NextScorer]_vars

(***************************************************************************)
(* extract_name_from_text on its own                                       *)
(***************************************************************************)
\* a text is a lead-in, a body and a tail
Leads ==
  {<<>>, <<"F","r","o","m"," ">>, <<"f","r","o","m"," "," ">>, <<"T","r","a","n","s","f","e","r"," ","f","r","o","m"," ">>, <<"P","a","y","m","e","n","t"," ","f","r","o","m"," "," "," ">>,
   <<"r","e","f"," ","1","2",","," ","F","r","o","m"," ">>, <<"T","o"," ","D","e","e","l"," ","5"," ","F","r","o","m"," ">>}

Bodies ==
  {<<"L","i","a","m"," ","J","."," ","J","o","h","n","s","o","n">>, <<"L","i","a","m">>, <<"#">>, <<"E","R","R","#"," ","R","y","a","n"," ","D","i","a","z">>, <<"R","y","a","n"," ","D","i","a","z"," ","E","R","R","#">>,
   <<"R","y","a","n"," ","D","i","a","z"," ","J","r">>, <<"A","n","n"," ","L","e","e"," ","1","2">>, <<"A","b"," ","C","d">>, <<"a","b"," ","c","d">>, <<"L","i","l","y",","," ","F","o","s","t","e","r">>,
   <<"A","n","n"," "," "," ","M","a","r","y"," "," "," "," ","L","e","e">>}

Tails ==
  {<<>>, <<" ","f","o","r"," ","D","e","e","l">>, <<"f","o","r"," ","D","e","e","l">>, <<" ",","," ","f","o","r"," ","D","e","e","l">>, <<" ","r","e","f"," ","1","2",","," ","f","o","r"," ","D","e","e","l">>,
   <<" ","f","o","r"," ","D","e","e","l",","," ","r","e","f"," ","4","o","J","n","V","O","M","R","L","Z","f","t","A","C","C","/","/","4","0","3","7","0","5","2","1","7","8","4","3","/","/","C","N","T","R">>}

\* texts in which two lead-ins capture different names, a capture without a
\* word beside a capitalized run, captures that end in digits or in noise
\* tokens, and short capitalized runs
OrderTexts ==
  {<<"F","r","o","m"," ","A","n","n"," ","L","e","e"," ","f","o","r"," ","D","e","e","l"," ","T","r","a","n","s","f","e","r"," ","f","r","o","m"," ","B","o","b"," ","R","a","y"," ","f","o","r"," ","D","e","e","l">>,
   <<"T","o"," ","D","e","e","l"," ","F","r","o","m"," ","A","n","n"," ","L","e","e"," ","f","o","r"," ","D","e","e","l"," ","F","r","o","m"," ","B","o","b"," ","R","a","y"," ","f","o","r"," ","D","e","e","l">>,
   <<"A","n","n"," ","L","e","e",":"," ","F","r","o","m"," ","#"," ","f","o","r"," ","D","e","e","l">>,
   <<"F","r","o","m"," ","A","n","n"," ","L","e","e","1","2"," ","f","o","r"," ","D","e","e","l">>, <<"F","r","o","m"," ","A","n","n"," ","L","e","e"," ","1","2"," ","3","4"," ","f","o","r"," ","D","e","e","l">>,
   <<"F","r","o","m"," ","A","n","n"," ","1","2"," ","J","r"," ","f","o","r"," ","D","e","e","l">>, <<"F","r","o","m"," ","A","n","n"," ","J","r"," ","J","r"," ","f","o","r"," ","D","e","e","l">>,
   <<"F","r","o","m"," ","A","n","n"," ","L","e","e"," ","I","V"," ","7"," ","f","o","r"," ","D","e","e","l">>, <<"F","r","o","m"," ","1","2"," ","3","4"," ","f","o","r"," ","D","e","e","l">>,
   <<"A","b"," ","C","d"," ","a","n","d"," ","L","i","a","m"," ","J","o","h","n","s","o","n">>, <<"A","n","n"," "," "," ","L","e","e">>, <<"A","n","n"," "," "," "," "," ","L","e","e">>}

TextInputs == {lead \o body \o tail : lead \in Leads, body \in Bodies, tail \in Tails}
                \cup {<<>>, <<" "," ">>, TxSamuel.description, TxZoey.description,
                      TxRefOnly.description}
                \cup OrderTexts

ExtractName(text) ==
  /\ call = Idle
  /\ ret' = extract_name_from_text(text)
  /\ call' = [op |-> "extract", text |-> text]
  /\ UNCHANGED <<transactions, users>>

\* the first statement after the test of an empty text, on its own
CollapseText(text) ==
  /\ call = Idle
  /\ text # <<>>
  /\ ret' = CollapseSpaces(text)
  /\ call' = [op |-> "collapse", text |-> text]
  /\ UNCHANGED <<transactions, users>>

NextExtract ==
  \/ \E text \in TextInputs : ExtractName(text)
  \/ \E text \in TextInputs : CollapseText(text)
  \/ Rerun

InitExtract ==
  /\ transactions = <<>>
  /\ users = <<>>
  /\ call = Idle
  /\ ret = <<>>

SpecExtract == InitExtract /\ [][NextExtract]_vars

(***************************************************************************)
(* find_similar_transactions on its own, with queries of up to eleven      *)
(* different words                                                         *)
(***************************************************************************)
SearchCollections ==
  {<<>>, <<TxLiam, TxNoDescription>>, <<TxNoDescription, TxLiam>>,
   <<TxSamuel, TxLiam, TxZoey>>}

\* queries of one, three, ten and eleven different words
LongQueries ==
  {<<"r","e","f"," ","r","e","f">>, <<"F","r","o","m"," ","L","i","a","m"," ","J","o","h","n","s","o","n">>, TxLiam.description,
   <<"P","a","y","m","e","n","t"," ">> \o TxLiam.description}

InitSearch ==
  /\ transactions \in SearchCollections
  /\ users = <<>>
  /\ call = Idle
  /\ ret = <<>>

NextSearch ==
  \/ \E query_text \in LongQueries, threshold \in Thresholds, top_k \in TopKs :
       FindSimilar(query_text, threshold, top_k)
  \/ Rerun

SpecSearch == InitSearch /\ [][NextSearch]_vars

(***************************************************************************)
(* The scoring loop of find_user_matches_for_transaction with the entries  *)
(* of the directory scored in any order: each entry is scored on its own   *)
(* and appended to the accumulator when it is done, and the final sort     *)
(* runs when all are.  call.pending holds the entries not yet scored, ret  *)
(* the accumulator.                                                        *)
(***************************************************************************)
ParallelDirectories ==
  {ScorerUsers, <<UserLayla, UserLiam, UserWilliam>>,
   <<UserIsabella2, UserIsabella1>>,
   <<UserLiam, UserIsabella1, UserLayla, UserIsabella2>>}

ParallelNames == {<<"I","s","a","b","e","l","l","a"," ","W","i","l","s","o","n">>, <<"L","i","a","m"," ","J","o","h","n","s","o","n">>, <<"W","i","l","l","i","a","m"," ","M","a","r","t","i","n","e","z">>}

InitParallel ==
  /\ transactions = <<>>
  /\ users \in ParallelDirectories
  /\ call = Idle
  /\ ret = <<>>

StartScoring(extracted_name) ==
  /\ call = Idle
  /\ call' = [op |-> "scoring", extracted_name |-> extracted_name,
              pending |-> 1..Len(users)]
  /\ ret' = <<>>
  /\ UNCHANGED <<transactions, users>>

\* the body of the loop for the i-th entry
ScoreEntry(i) ==
  /\ call.op = "scoring"
  /\ i \in call.pending
  /\ ret' = ret \o score_users(<<users[i]>>, call.extracted_name, 1, {})
  /\ call' = [call EXCEPT !.pending = @ \ {i}]
  /\ UNCHANGED <<transactions, users>>

FinalSort ==
  /\ call.op = "scoring"
  /\ call.pending = {}
  /\ ret' = sort_matches(ret)
  /\ call' = [op |-> "scored", extracted_name |-> call.extracted_name]
  /\ UNCHANGED <<transactions, users>>

NextParallel ==
  \/ \E extracted_name \in ParallelNames : StartScoring(extracted_name)
  \/ \E i \in 1..Len(users) : ScoreEntry(i)
  \/ FinalSort
  \/ Rerun

SpecParallel == InitParallel /\ [][NextParallel]_vars

(***************************************************************************)
(* The collections under add_new_transaction, add_new_user,                *)
(* delete_transaction and delete_user (save_to_csv writes the collections  *)
(* to the CSV files and leaves them as they are)                           *)
(***************************************************************************)
\* the longest collection that an add extends
MaxStored == 2

\* the largest number of a generated id
MaxNewId == 1002

TxLeadingZero == [id |-> <<"0", "9", "9", "9">>, amount |-> 7, description |-> <<>>]

TxLate == [id |-> <<"1", "0", "0", "2">>, amount |-> 100,
           description |-> <<>>]

UserLeadingZero == [id |-> <<"U","S","E","R","0","9","9","9">>, name |-> <<"A","n","n"," ","L","e","e">>]

UserTwoNumbers == [id |-> <<"A","1","2","B","1","0","0","0">>, name |-> <<"L","i","a","m"," ","J","o","h","n","s","o","n">>]

UserNoNumber == [id |-> <<"a","d","m","i","n">>, name |-> <<>>]

UserFirst == [id |-> <<"U","S","E","R","1","0","0","1">>, name |-> <<"B","o","b"," ","R","a","y">>]

\* collections whose ids are pairwise different
StoredTransactions ==
  {<<>>, <<TxLiam>>, <<TxNoDescription, TxLiam>>, <<TxLate, TxNoDescription>>,
   <<TxLeadingZero>>}

StoredUsers ==
  {<<>>, <<UserTwoNumbers>>, <<UserLeadingZero, UserNoNumber>>, <<UserFirst>>}

InitStore ==
  /\ \/ transactions \in StoredTransactions /\ users = <<>>
     \/ transactions = <<>> /\ users \in StoredUsers
  /\ call = Idle
  /\ ret = <<>>

AddNewTransaction(amount, description) ==
  /\ call = Idle
  /\ Len(transactions) < MaxStored
  /\ int_of(new_transaction_id(transactions)) <= MaxNewId
  /\ transactions' = add_new_transaction(transactions, amount, description)
  /\ ret' = [new_id |-> new_transaction_id(transactions),
             new_transaction |-> transactions'[Len(transactions')]]
  /\ call' = [op |-> "add_new_transaction"]
  /\ UNCHANGED users

AddNewUser(name) ==
  /\ call = Idle
  /\ Len(users) < MaxStored
  /\ new_user_number(users) <= MaxNewId
  /\ users' = add_new_user(users, name)
  /\ ret' = [new_id |-> new_user_id(users)]
  /\ call' = [op |-> "add_new_user"]
  /\ UNCHANGED transactions

DeleteTransaction(transaction_id) ==
  /\ call = Idle
  /\ LET i == first_with_id(transactions, transaction_id)
     IN  IF i # 0
         THEN /\ transactions' = pop(transactions, i)
              /\ ret' = [ok |-> TRUE, deleted |-> transactions[i]]
         ELSE /\ transactions' = transactions
              /\ ret' = [ok |-> FALSE]
  /\ call' = [op |-> "delete_transaction", id |-> transaction_id]
  /\ UNCHANGED users

DeleteUser(user_id) ==
  /\ call = Idle
  /\ LET i == first_with_id(users, user_id)
     IN  IF i # 0
         THEN /\ users' = pop(users, i)
              /\ ret' = [ok |-> TRUE, deleted |-> users[i]]
         ELSE /\ users' = users
              /\ ret' = [ok |-> FALSE]
  /\ call' = [op |-> "delete_user", id |-> user_id]
  /\ UNCHANGED transactions

\* the ids that the pages pass to the deletes: those of the stored records
\* and one that is typed
DeletableTransactions ==
  {transactions[i].id : i \in 1..Len(transactions)} \cup {<<"1", "0", "0", "1">>}

DeletableUsers ==
  {users[i].id : i \in 1..Len(users)} \cup {<<"U","S","E","R","1","0","0","1">>}

NextStore ==
  \/ \E description \in {<<"F","r","o","m"," ","L","i","a","m"," ","J","o","h","n","s","o","n"," ","f","o","r"," ","D","e","e","l">>} :
       AddNewTransaction(100, description)
  \/ \E name \in {<<"L","i","a","m"," ","J","o","h","n","s","o","n">>} : AddNewUser(name)
  \/ \E transaction_id \in DeletableTransactions :
       DeleteTransaction(transaction_id)
  \/ \E user_id \in DeletableUsers : DeleteUser(user_id)
  \/ Rerun

SpecStore == InitStore /\ [][NextStore]_vars

(***************************************************************************)
(* Properties of calculate_name_similarity (SpecScorer)                    *)
(***************************************************************************)
\* C1: calculate_name_similarity(a, b) equals calculate_name_similarity(b, a)
\* for every pair of strings a and b.
C1_Symmetric ==
  call.op = "similarity" =>
    RatEq(ret, calculate_name_similarity(call.name2, call.name1))

\* a pair of different names that scores strictly between 0 and 1 and earns
\* the surname bonus
C1_Witness ==
  /\ call.op = "similarity"
  /\ call.name1 # call.name2
  /\ ~RatEq(ret, Zero)
  /\ ~RatEq(ret, One)
  /\ same_last_token(normalized(call.name1), normalized(call.name2))

\* C2: calculate_name_similarity returns a value in the closed interval
\* [0,1], and every score of a match that
\* find_user_matches_for_transaction returns lies in [0,1] (0..1000
\* thousandths).
C2_ScoresInUnitInterval ==
  /\ call.op = "similarity" =>
       /\ ret[2] > 0
       /\ RatGeq(ret, Zero)
       /\ RatGeq(One, ret)
  /\ call.op = "match" =>
       \A i \in 1..Len(ret.matches) : ret.matches[i].match_metric \in 0..1000

\* a returned match whose weighted sum with the bonuses exceeds 1: the
\* names differ, share the first character and the last token, and the
\* score is 1.0
C2_Witness ==
  /\ call.op = "match"
  /\ \E i \in 1..Len(ret.matches) :
       /\ ret.matches[i].match_metric = 1000
       /\ normalized(ret.matches[i].name) # normalized(ret.extracted_name)
       /\ same_last_token(normalized(ret.matches[i].name),
                          normalized(ret.extracted_name))

\* C3: for every non-empty string a, calculate_name_similarity(a, a) is 1.0,
\* and the score is 1.0 whenever the two (non-empty) names are equal after
\* lower-casing and trimming.
C3_EqualNamesScoreOne ==
  (/\ call.op = "similarity"
   /\ call.name1 # <<>>
   /\ call.name2 # <<>>
   /\ strip(lower(call.name1)) = strip(lower(call.name2)))
    => ret = One

\* two different strings that are equal after lower-casing and trimming
C3_Witness ==
  /\ call.op = "similarity"
  /\ call.name1 # call.name2
  /\ call.name1 # <<>>
  /\ call.name2 # <<>>
  /\ strip(lower(call.name1)) = strip(lower(call.name2))
  /\ ret = One

\* The reference scorer of the specification, stated on its own terms.
\* the maximal runs of lowercase ASCII letters of n
AlphabeticWords(n) ==
  UNION {{Slice(n, i, j) : j \in
            {j \in i..Len(n) :
               /\ \A k \in i..j : n[k] \in LowerCase
               /\ (i = 1 \/ n[i - 1] \notin LowerCase)
               /\ (j = Len(n) \/ n[j + 1] \notin LowerCase)}} :
         i \in 1..Len(n)}

\* the characters of n other than the space
CharacterSet(n) == {n[i] : i \in 1..Len(n)} \ {" "}

\* the Jaccard index |A \cap B| / |A \cup B| in tenths of a weight w
WeightedJaccard(w, A, B) ==
  IF A \cup B = {} THEN Zero
  ELSE <<w * Cardinality(A \cap B), 10 * Cardinality(A \cup B)>>

RatPlus(x, y) == <<x[1] * y[2] + y[1] * x[2], x[2] * y[2]>>

\* the whitespace-free end of n
LastToken(n) ==
  LET from == {i \in 1..Len(n) : \A k \in i..Len(n) : n[k] \notin WhiteSpace}
  IN  IF from = {} THEN <<>> ELSE Slice(n, Min(from), Len(n))

\* 0.7*J_w + 0.3*J_c + 0.1*[first characters equal]
\*   + 0.2*[both contain a space and last tokens equal], at most 1.0
WeightedSum(a, b) ==
  LET sum == RatPlus(
               RatPlus(WeightedJaccard(7, AlphabeticWords(a), AlphabeticWords(b)),
                       WeightedJaccard(3, CharacterSet(a), CharacterSet(b))),
               RatPlus(IF a # <<>> /\ b # <<>> /\ a[1] = b[1]
                       THEN <<1, 10>> ELSE Zero,
                       IF /\ \E i \in 1..Len(a) : a[i] = " "
                          /\ \E i \in 1..Len(b) : b[i] = " "
                          /\ LastToken(a) = LastToken(b)
                       THEN <<2, 10>> ELSE Zero))
  IN  IF RatGeq(sum, One) THEN One ELSE sum

\* the scorer as the claim states it: an empty word set only makes J_w zero
ReferenceScore(name1, name2) ==
  LET a == strip(lower(name1))
      b == strip(lower(name2))
  IN  IF name1 = <<>> \/ name2 = <<>> THEN Zero
      ELSE IF a = b THEN One
      ELSE WeightedSum(a, b)

\* the scorer with the case of a name without an alphabetic word
AmendedReferenceScore(name1, name2) ==
  LET a == strip(lower(name1))
      b == strip(lower(name2))
  IN  IF name1 = <<>> \/ name2 = <<>> THEN Zero
      ELSE IF a = b THEN One
      ELSE IF AlphabeticWords(a) = {} \/ AlphabeticWords(b) = {} THEN Zero
      ELSE WeightedSum(a, b)

\* C4 as stated: calculate_name_similarity agrees with the reference scorer
\* on every pair of names, and a name without an alphabetic word still
\* scores 0.3*J_c plus the bonuses.
C4_AgreesWithReference ==
  call.op = "similarity" =>
    RatEq(ret, ReferenceScore(call.name1, call.name2))

\* C4 amended: calculate_name_similarity is 0.0 if either input is empty,
\* 1.0 if the names are equal after lower-case and trim, 0.0 if either name
\* has no lowercase alphabetic word, and otherwise
\* min(1.0, 0.7*J_w + 0.3*J_c + 0.1*[first characters equal]
\*          + 0.2*[both contain a space and last tokens equal]).
C4_AgreesWithAmendedReference ==
  call.op = "similarity" =>
    RatEq(ret, AmendedReferenceScore(call.name1, call.name2))

\* a pair in which one name has no alphabetic word and the two share
\* characters: the score is 0.0
C4_Witness ==
  /\ call.op = "similarity"
  /\ AlphabeticWords(strip(lower(call.name1))) = {}
  /\ AlphabeticWords(strip(lower(call.name2))) # {}
  /\ CharacterSet(strip(lower(call.name1)))
       \cap CharacterSet(strip(lower(call.name2))) # {}
  /\ ret = Zero

(***************************************************************************)
(* Properties of find_user_matches_for_transaction (Spec)                  *)
(***************************************************************************)
\* a name was extracted for the call that has returned
NameExtracted == call.op = "match" /\ ret.extracted_name # NoNameMessage

\* the positions of the directory entries with a non-empty name that score
\* 0.3 or more against the extracted name
Qualifying ==
  {i \in 1..Len(users) :
     /\ users[i].name # <<>>
     /\ RatGeq(calculate_name_similarity(ret.extracted_name, users[i].name),
               <<3, 10>>)}

\* C5: when a name was extracted, the users that
\* find_user_matches_for_transaction returns are exactly the directory
\* entries whose name is non-empty and whose score against the extracted
\* name is at least 0.3, each once; an entry with an empty name is skipped.
C5_ExactlyTheQualifyingUsers ==
  NameExtracted =>
    /\ {ret.matches[r].id : r \in 1..Len(ret.matches)}
         = {users[i].id : i \in Qualifying}
    /\ Len(ret.matches) = Cardinality(Qualifying)
    /\ \A r \in 1..Len(ret.matches) :
         /\ ret.matches[r].name # <<>>
         /\ ret.matches[r].match_metric >= 300

\* a call that returns a user with a score under 1.0 and leaves out a named
\* user of the directory whose score is positive and under 0.3
C5_Witness ==
  /\ NameExtracted
  /\ \E r \in 1..Len(ret.matches) : ret.matches[r].match_metric < 1000
  /\ \E i \in 1..Len(users) :
       /\ i \notin Qualifying
       /\ ~RatEq(calculate_name_similarity(ret.extracted_name, users[i].name),
                 Zero)

\* the position in the directory of the user of the r-th match
DirectoryPosition(r) ==
  CHOOSE i \in 1..Len(users) : users[i].id = ret.matches[r].id

\* C6: the match list is ordered by score descending, and two matches with
\* equal score keep the relative order of their users in the directory.
C6_DescendingAndStable ==
  call.op = "match" =>
    \A r, s \in 1..Len(ret.matches) :
      r < s =>
        /\ ret.matches[r].match_metric >= ret.matches[s].match_metric
        /\ ret.matches[r].match_metric = ret.matches[s].match_metric
             => DirectoryPosition(r) < DirectoryPosition(s)

\* a match list in which the sort has moved a later user of the directory
\* ahead of an earlier one
C6_Witness ==
  /\ call.op = "match"
  /\ \E r, s \in 1..Len(ret.matches) :
       /\ r < s
       /\ ret.matches[r].match_metric > ret.matches[s].match_metric
       /\ DirectoryPosition(r) > DirectoryPosition(s)

\* the transactions whose id is the input, ignoring case and surrounding
\* whitespace
ResolvedTo ==
  {i \in 1..Len(transactions) :
     strip(lower(transactions[i].id)) = strip(lower(call.transaction_input))}

\* the input resolves to a transaction whose description extracts to a
\* name that a user of the directory bears, ignoring case and surrounding
\* whitespace
ResolvesToDirectoryName ==
  /\ call.op = "match"
  /\ ResolvedTo # {}
  /\ LET N == extract_name_from_text(transactions[Min(ResolvedTo)].description)
     IN  /\ N # <<>>
         /\ \E i \in 1..Len(users) :
              strip(lower(users[i].name)) = strip(lower(N))

\* C7: if the input resolves to a transaction whose description extracts to
\* a name N and the directory holds a user named N (ignoring case and
\* surrounding whitespace), the match list is non-empty and its first
\* element has score 1.0.
C7_ExactMatchOnTop ==
  ResolvesToDirectoryName =>
    /\ ret.matches # <<>>
    /\ ret.matches[1].match_metric = 1000

\* the id typed in another case and with a leading space, the exact match
\* ranked ahead of a weaker one
C7_Witness ==
  /\ ResolvesToDirectoryName
  /\ call.transaction_input # transactions[Min(ResolvedTo)].id
  /\ Len(ret.matches) >= 2
  /\ ret.matches[1].match_metric = 1000
  /\ ret.matches[2].match_metric < 1000

(***************************************************************************)
(* Properties of extract_name_from_text (SpecExtract)                      *)
(***************************************************************************)
\* the words of the cleaned capture of the template that matched the text
\* of the call
CaptureWords == split(ExtractTrace(call.text).name)

TemplateMatched == call.op = "extract" /\ ExtractTrace(call.text).template # 0

\* C8: when a template matches and the cleaned capture has the words
\* w1..wn, extract_name_from_text returns "w1 wn" for n >= 2 and w1 for
\* n = 1, so a name of the template path has at most two tokens; the
\* description of transaction caqjJtrI yields "Liam Johnson".
C8_FirstAndLastWord ==
  /\ TemplateMatched =>
       /\ Len(CaptureWords) >= 2 =>
            ret = CaptureWords[1] \o <<" ">> \o CaptureWords[Len(CaptureWords)]
       /\ Len(CaptureWords) = 1 => ret = CaptureWords[1]
       /\ Len(split(ret)) <= 2
  /\ (call.op = "extract" /\ call.text = TxLiam.description)
       => ret = <<"L","i","a","m"," ","J","o","h","n","s","o","n">>

\* a capture of three or more words, the last of which differs from the
\* second: the middle words are dropped
C8_Witness ==
  /\ TemplateMatched
  /\ Len(CaptureWords) >= 3
  /\ CaptureWords[2] # CaptureWords[Len(CaptureWords)]
  /\ Len(split(ret)) = 2

\* s[i..j] is a run of two or more capitalized words: words of an uppercase
\* letter and lowercase letters after it, whitespace between them
IsCapitalizedRun(s, i, j) ==
  /\ s[i] \in UpperCase
  /\ s[j] \in LowerCase
  /\ \A k \in i..j :
       /\ s[k] \in UpperCase \cup LowerCase \cup WhiteSpace
       /\ s[k] \in UpperCase =>
            /\ s[k + 1] \in LowerCase
            /\ (k = i \/ s[k - 1] \in WhiteSpace)
       /\ s[k] \in LowerCase => s[k - 1] \in UpperCase \cup LowerCase
       /\ s[k] \in WhiteSpace => s[k + 1] \in UpperCase \cup WhiteSpace
  /\ \E k \in i..j : s[k] \in WhiteSpace

\* the text holds a run of capitalized words of more than 5 characters
HasQualifyingRun(s) ==
  \E i \in {k \in 1..Len(s) : s[k] \in UpperCase} :
    \E j \in {k \in (i + 5)..Len(s) : s[k] \in LowerCase} :
      IsCapitalizedRun(s, i, j)

\* C9: extract_name_from_text("") is the empty string, and so is the result
\* for every text in which no template matches and which holds no
\* qualifying run of capitalized words.
C9_EmptyWhenNothingMatches ==
  call.op = "extract" =>
    /\ call.text = <<>> => ret = <<>>
    /\ (~TemplateMatched /\ ~HasQualifyingRun(call.text)) => ret = <<>>

\* a non-empty text without a template match that holds two capitalized
\* words, too short a run to qualify
C9_Witness ==
  /\ call.op = "extract"
  /\ call.text # <<>>
  /\ ~TemplateMatched
  /\ ~HasQualifyingRun(call.text)
  /\ \E i \in 1..Len(call.text) : NameRunEnd(call.text, i, 1) # 0
  /\ ret = <<>>

(***************************************************************************)
(* Properties of find_similar_transactions (Spec)                          *)
(***************************************************************************)
\* the word tokens of s: the maximal runs of letters, digits and "_"
WordTokens(s) ==
  UNION {{Slice(s, i, j) : j \in
            {j \in i..Len(s) :
               /\ \A k \in i..j : s[k] \in WordChar
               /\ (i = 1 \/ s[i - 1] \notin WordChar)
               /\ (j = Len(s) \/ s[j + 1] \notin WordChar)}} :
         i \in 1..Len(s)}

\* |Q \cap D| / |Q \cup D| of the query of the call and the i-th description
Jaccard(i) ==
  LET Q == WordTokens(lower(call.query_text))
      D == WordTokens(lower(transactions[i].description))
  IN  IF Q \cup D = {} THEN Zero
      ELSE <<Cardinality(Q \cap D), Cardinality(Q \cup D)>>

\* the transactions whose similarity to the query is at least the threshold
QualifyingTx == {i \in 1..Len(transactions) : RatGeq(Jaccard(i), call.threshold)}

\* the qualifying transactions that rank ahead of the i-th one
RankedAhead(i) ==
  {j \in QualifyingTx :
     \/ ~RatGeq(Jaccard(i), Jaccard(j))
     \/ RatEq(Jaccard(i), Jaccard(j)) /\ j < i}

\* C10: the results of find_similar_transactions are the first topK
\* elements of the list of the transactions whose Jaccard similarity to the
\* query is at least the threshold, by similarity descending: a qualifying
\* transaction is returned if and only if fewer than topK qualifying
\* transactions rank ahead of it, and no other transaction is returned.
C10_FirstTopKOfQualifying ==
  (call.op = "search" /\ WordTokens(lower(call.query_text)) # {}) =>
    \A i \in 1..Len(transactions) :
      (\E r \in 1..Len(ret.results) : ret.results[r].id = transactions[i].id)
        <=> (i \in QualifyingTx /\ Cardinality(RankedAhead(i)) < call.top_k)

(***************************************************************************)
(* Further properties of find_similar_transactions                         *)
(***************************************************************************)
\* the result of the search of the call at another threshold (the order of
\* list(query_words) does not bear on the number of results)
ResultsAt(threshold2) ==
  find_similar_transactions(
    transactions, call.query_text, threshold2, call.top_k,
    CHOOSE order \in list_orders(findall_word(lower(call.query_text))) : TRUE
  ).results

\* C11: for a fixed query, collection and topK, raising the threshold never
\* increases the number of results: threshold1 <= threshold2 implies
\* count(threshold2) <= count(threshold1).
C11_RaisingThresholdNeverAddsResults ==
  call.op = "search" =>
    \A threshold2 \in Thresholds :
      RatGeq(threshold2, call.threshold) =>
        Len(ResultsAt(threshold2)) <= Len(ret.results)

\* C12 as stated: for every query, collection, threshold and integer topK
\* the number of returned results is at most topK.
C12_AtMostTopK ==
  call.op = "search" => Len(ret.results) <= call.top_k

\* C12 amended: for every query, collection, threshold and integer
\* topK >= 0 the number of returned results is at most topK.
C12_AtMostTopKWhenNotNegative ==
  (call.op = "search" /\ call.top_k >= 0) => Len(ret.results) <= call.top_k

\* a search that returns topK >= 1 results of a longer list of qualifying
\* transactions
C12_Witness ==
  /\ call.op = "search"
  /\ call.top_k >= 1
  /\ Len(ret.results) = call.top_k
  /\ Cardinality(QualifyingTx) > call.top_k

\* C13: every record that find_similar_transactions returns has an
\* indicator vector of exactly 10 entries, each 0 or 1, whatever the number
\* of distinct query tokens, and carries no similarity key.
C13_WellFormedRecords ==
  call.op = "search" =>
    \A r \in 1..Len(ret.results) :
      /\ DOMAIN ret.results[r] = {"id", "description", "amount", "embedding"}
      /\ DOMAIN ret.results[r].embedding = 1..10
      /\ \A i \in 1..10 : ret.results[r].embedding[i] \in {0, 1}

\* a query of more than 10 distinct tokens with a result whose vector has
\* ten ones
C13_Witness ==
  /\ call.op = "search"
  /\ Cardinality(WordTokens(lower(call.query_text))) > 10
  /\ \E r \in 1..Len(ret.results) :
       \A i \in 1..10 : ret.results[r].embedding[i] = 1

\* the indicator vector of the query words in the given order for a
\* description
IndicatorVector(order, description) ==
  [i \in 1..10 |->
     IF /\ i <= Len(order)
        /\ order[i] \in WordTokens(lower(call.query_text))
                          \cap WordTokens(lower(description))
     THEN 1 ELSE 0]

\* C14: in every returned record an entry of the indicator vector is 1 only
\* if the corresponding query word belongs to the common set of the query
\* and that record's description, and 0 otherwise, for every threshold and
\* also for a description without word tokens (all zeros).
C14_IndicatorOfCommonWords ==
  call.op = "search" =>
    \E order \in orders_of(WordTokens(lower(call.query_text))) :
      \A r \in 1..Len(ret.results) :
        ret.results[r].embedding
          = IndicatorVector(order, ret.results[r].description)

\* the distinct tokens of the query in the order of their first occurrence
FirstOccurrenceOrder ==
  LET s == lower(call.query_text)
      starts == {i \in 1..Len(s) :
                   /\ s[i] \in WordChar
                   /\ (i = 1 \/ s[i - 1] \notin WordChar)}
      word(i) == Slice(s, i, Min({j \in i..Len(s) :
                                    j = Len(s) \/ s[j + 1] \notin WordChar}))
      firsts == {i \in starts : \A j \in starts : j < i => word(j) # word(i)}
  IN  [p \in 1..Cardinality(firsts) |->
         word(CHOOSE i \in firsts : Cardinality({j \in firsts : j < i}) = p - 1)]

\* C15: position i of the indicator vector corresponds to the i-th distinct
\* query token in first-occurrence order, so that the vectors are the same
\* in every invocation (stated for thresholds above 0, where every returned
\* description has a word in common with the query).
C15_FirstOccurrenceOrder ==
  (call.op = "search" /\ ~RatGeq(Zero, call.threshold)) =>
    \A r \in 1..Len(ret.results) :
      ret.results[r].embedding
        = IndicatorVector(FirstOccurrenceOrder, ret.results[r].description)

\* C16: extract_name_from_text, find_user_matches_for_transaction and
\* find_similar_transactions finish by returning a result value, never by
\* raising an error.
C16_NeverRaises ==
  /\ call.op = "search" => ret.raised = FALSE
  /\ call.op = "match" => DOMAIN ret = {"matches", "extracted_name", "transaction"}

\* the number of word tokens of the query, duplicates counted
TokenCount ==
  LET s == lower(call.query_text)
  IN  Cardinality({i \in 1..Len(s) :
                     /\ s[i] \in WordChar
                     /\ (i = 1 \/ s[i - 1] \notin WordChar)})

\* C20: find_similar_transactions returns as tokenCount the number of word
\* tokens of the query counted with duplicates, and returns empty results
\* with tokenCount 0 when the query is empty or has no word token.
C20_TokenCountWithDuplicates ==
  call.op = "search" =>
    /\ ret.raised = FALSE
    /\ ret.token_count = TokenCount
    /\ TokenCount = 0 => ret.results = <<>>

(***************************************************************************)
(* Further properties of find_user_matches_for_transaction                 *)
(***************************************************************************)
\* the positions of the transactions whose id equals the input under
\* case-insensitive exact comparison
ResolvedExactly ==
  {i \in 1..Len(transactions) :
     lower(transactions[i].id) = lower(call.transaction_input)}

\* the positions of the transactions whose id equals the input once both are
\* trimmed of surrounding whitespace and lower-cased
ResolvedTrimmed ==
  {i \in 1..Len(transactions) :
     strip(lower(transactions[i].id)) = strip(lower(call.transaction_input))}

\* the transaction and the text to extract from when the input resolves to
\* the given positions
ExpectedTransaction(hits) ==
  IF hits # {} THEN transactions[Min(hits)]
  ELSE [id |-> <<"U","s","e","r"," ","I","n","p","u","t">>, description |-> call.transaction_input]

\* the call returned the expected transaction and the name extracted from
\* its description (the matches are empty when there is no such name)
ResolvedAs(hits) ==
  /\ ret.transaction = ExpectedTransaction(hits)
  /\ \E name \in {extract_name_from_text(ExpectedTransaction(hits).description)} :
       IF name = <<>> THEN ret.matches = <<>> ELSE ret.extracted_name = name

\* C17 as stated: the input resolves to a stored transaction exactly when
\* some transaction id equals it under case-insensitive exact comparison, and
\* the name is then extracted from that transaction's description; in every
\* other case the name is extracted from the input text and the transaction
\* returned is a placeholder whose description is the raw input.
C17_ResolvesOnExactMatch ==
  call.op = "match" => ResolvedAs(ResolvedExactly)

\* C17 amended: the same with the id and the input compared after both are
\* trimmed of surrounding whitespace and lower-cased.
C17_ResolvesOnTrimmedMatch ==
  call.op = "match" => ResolvedAs(ResolvedTrimmed)

\* an input that is an id only once trimmed resolves to the stored
\* transaction, and an unresolved input gives the placeholder
C17_Witness ==
  /\ call.op = "match"
  /\ ResolvedExactly = {}
  /\ ResolvedTrimmed # {}
  /\ ret.transaction = transactions[Min(ResolvedTrimmed)]
  /\ ret.extracted_name = extract_name_from_text(ret.transaction.description)
  /\ ret.extracted_name # <<>>

\* the name that extraction finds in the description the input resolves to
ExtractedFromResolved ==
  extract_name_from_text(ExpectedTransaction(ResolvedTrimmed).description)

\* C18: when extraction on the resolved description yields the empty string,
\* find_user_matches_for_transaction returns an empty match list whatever the
\* directory contains, as a normal result (the triple of the empty list, the
\* note and the transaction) and without scoring any user.
C18_NoNameNoMatches ==
  (call.op = "match" /\ ExtractedFromResolved = <<>>) =>
    /\ DOMAIN ret = {"matches", "extracted_name", "transaction"}
    /\ ret.matches = <<>>
    /\ ret.extracted_name = <<"N","o"," ","n","a","m","e"," ","c","o","u","l","d"," ","b","e"," ","e","x","t","r","a","c","t","e","d"," ","f","r","o","m"," ","d","e","s","c","r","i","p","t","i","o","n">>
    /\ ret.transaction = ExpectedTransaction(ResolvedTrimmed)

\* a stored description without a name, looked up in a directory of users
\* that all have a name
C18_Witness ==
  /\ call.op = "match"
  /\ ResolvedTrimmed # {}
  /\ ExtractedFromResolved = <<>>
  /\ users # <<>>
  /\ \A i \in 1..Len(users) : users[i].name # <<>>
  /\ ret.matches = <<>>

\* C19 as stated: the extractedName component of the triple always equals
\* extract_name_from_text applied to the resolved description; when no name
\* is extracted it is therefore the empty string.
C19_ExtractedNameIsExtraction ==
  call.op = "match" => ret.extracted_name = ExtractedFromResolved

\* C19 amended: the extractedName component equals extract_name_from_text
\* applied to the resolved description when that is not empty, and is the
\* note "No name could be extracted from description" when it is empty.
C19_ExtractedNameOrNote ==
  call.op = "match" =>
    ret.extracted_name
      = IF ExtractedFromResolved = <<>>
        THEN <<"N","o"," ","n","a","m","e"," ","c","o","u","l","d"," ","b","e"," ","e","x","t","r","a","c","t","e","d"," ","f","r","o","m"," ","d","e","s","c","r","i","p","t","i","o","n">>
        ELSE ExtractedFromResolved

\* a call on a description without a name, whose second component is the note
C19_Witness ==
  /\ call.op = "match"
  /\ ExtractedFromResolved = <<>>
  /\ ret.extracted_name # <<>>
  /\ ret.extracted_name = <<"N","o"," ","n","a","m","e"," ","c","o","u","l","d"," ","b","e"," ","e","x","t","r","a","c","t","e","d"," ","f","r","o","m"," ","d","e","s","c","r","i","p","t","i","o","n">>

(***************************************************************************)
(* The collections across the calls                                        *)
(***************************************************************************)
\* C21: find_user_matches_for_transaction and find_similar_transactions
\* leave the transactions and the users unchanged: after a call both
\* collections hold the same records, in the same order, with the same
\* fields and values as before.
C21_CollectionsUnchanged ==
  [][call'.op \in {"match", "search"} =>
       (transactions' = transactions /\ users' = users)]_vars

\* a search that scored two stored transactions and returned the better one
C21_Witness ==
  /\ call.op = "search"
  /\ Len(ret.results) = 1
  /\ Cardinality(QualifyingTx) = 2
  /\ \E i \in 1..Len(transactions) : transactions[i].id = ret.results[1].id

(***************************************************************************)
(* Further properties of extract_name_from_text (SpecExtract)              *)
(***************************************************************************)
\* the templates of the more specific lead-ins: Transfer from, Payment
\* from, Received from, Request from, To Deel...From, Deel payment from
SpecificTemplates == {3, 4, 5, 6, 7, 8}

\* the templates of the list that match the text after its first step
Matching(text) == {k \in 1..Len(patterns) : search(patterns[k], text).ok}

\* the name that the k-th template yields for the text
NameOf(k, text) ==
  TwoTokenForm(CleanCapture(SubSeq(text, search(patterns[k], text).cap[1],
                                   search(patterns[k], text).cap[2])))

\* C22: the templates are tried in a fixed priority order, the first match
\* wins, and in that order the more specific lead-in templates come before
\* the generic From template: a text that a specific template matches
\* yields the name of a specific template.
C22_SpecificLeadInsFirst ==
  call.op = "extract" =>
    \A text \in {CollapseSpaces(call.text)} :
      Matching(text) \cap SpecificTemplates # {} =>
        \E k \in Matching(text) \cap SpecificTemplates : ret = NameOf(k, text)

\* C23: when a template matches but the cleaned capture has no word,
\* extraction falls through: the scan for capitalized words is still run
\* and its result is returned.
C23_FallsThroughWithoutWords ==
  (TemplateMatched /\ CaptureWords = <<>>) =>
    ret = CapitalizedFallback(CollapseSpaces(call.text))

\* C29: the template that determines the result is always template 1, 9,
\* 10 or 11 of the list: every text that one of the templates 2-8 and 12
\* matches is also matched by template 1, which is tried first.
C29_OnlyFourTemplatesWin ==
  call.op = "extract" =>
    \A text \in {CollapseSpaces(call.text)} :
      /\ Matching(text) \cap {2, 3, 4, 5, 6, 7, 8, 12} # {} => 1 \in Matching(text)
      /\ (call.text # <<>> /\ Matching(text) # {}) =>
           /\ Matching(text) \cap {1, 9, 10, 11} # {}
           /\ ret = NameOf(Min(Matching(text) \cap {1, 9, 10, 11}), text)

\* a text that the templates To Deel...From and From match with different
\* captures, and whose name is that of From
C29_Witness ==
  /\ call.op = "extract"
  /\ \E text \in {CollapseSpaces(call.text)} :
       /\ {1, 7} \subseteq Matching(text)
       /\ NameOf(7, text) # NameOf(1, text)
       /\ ret = NameOf(1, text)

\* the group that the winning template captured, trimmed
RawCapture ==
  LET text == CollapseSpaces(call.text)
      m == FirstTemplate(text).match
  IN  strip(SubSeq(text, m.cap[1], m.cap[2]))

\* the first and the last of a list of words, or the only one
FirstAndLast(words) ==
  IF Len(words) >= 2 THEN words[1] \o <<" ">> \o words[Len(words)]
  ELSE IF Len(words) = 1 THEN words[1]
  ELSE <<>>

\* a list of words without the last one
ButLast(words) == Slice(words, 1, Len(words) - 1)

\* the words of a capture once the characters that are not of a name are
\* blanks
CleanWords(capture) ==
  split([i \in 1..Len(capture) |->
           IF capture[i] \in KeptInName THEN capture[i] ELSE " "])

\* the capture without its last whitespace-delimited word
BeforeLastWord(capture) ==
  Slice(capture, 1, Len(capture) - Len(split(capture)[Len(split(capture))]))

\* C24: for every capture that ends with one of the tokens jr, sr, ii, iii,
\* iv, test, debit, credit, err# (case-insensitively) after at least one
\* other word, the returned name does not contain that trailing token: it
\* is the name of the words before the token.
C24_TrailingNoiseTokenStripped ==
  TemplateMatched =>
    \A capture \in {RawCapture} :
      (Len(split(capture)) >= 2
         /\ lower(split(capture)[Len(split(capture))]) \in
              {<<"j","r">>, <<"s","r">>, <<"i","i">>, <<"i","i","i">>, <<"i","v">>, <<"t","e","s","t">>, <<"d","e","b","i","t">>,
               <<"c","r","e","d","i","t">>, <<"e","r","r","#">>})
        => ret = FirstAndLast(CleanWords(BeforeLastWord(capture)))

\* C25 as stated: a trailing run of digits of the capture is stripped, so a
\* name of the template path never ends with a digit when the capture has
\* at least one word that is not all digits.
C25_NeverEndsWithDigit ==
  TemplateMatched =>
    \A capture \in {RawCapture} :
      (\E i \in 1..Len(split(capture)) : ~IsDigits(split(capture)[i]))
        => (ret = <<>> \/ ret[Len(ret)] \notin Digit)

\* the words of the cleaned capture without a last word of digits, and then
\* without a last noise word, each only when another word remains
StrippedWords(words) ==
  LET n == Len(words)
      w1 == IF n >= 2 /\ IsDigits(words[n]) THEN ButLast(words) ELSE words
      n1 == Len(w1)
  IN  IF n1 >= 2 /\ lower(w1[n1]) \in
                      {<<"j","r">>, <<"s","r">>, <<"i","i">>, <<"i","i","i">>, <<"i","v">>, <<"t","e","s","t">>,
                       <<"d","e","b","i","t">>, <<"c","r","e","d","i","t">>}
      THEN ButLast(w1) ELSE w1

\* C25 amended: the last word of the cleaned capture is stripped when it is
\* all digits and not the only word, once and before the noise token: the
\* name is the first and the last of the words that remain.  It ends with a
\* digit when these end with one.
C25_LastDigitWordStripped ==
  TemplateMatched =>
    \A capture \in {RawCapture} :
      ret = FirstAndLast(StrippedWords(CleanWords(capture)))

\* a capture that ends with a word of digits after a noise token: both are
\* stripped
C25_Witness ==
  /\ TemplateMatched
  /\ \E words \in {CleanWords(RawCapture)} :
       /\ Len(words) >= 4
       /\ IsDigits(words[Len(words)])
       /\ ~IsDigits(words[Len(words) - 1])
       /\ StrippedWords(words) = Slice(words, 1, Len(words) - 2)
       /\ ret = FirstAndLast(Slice(words, 1, Len(words) - 2))

\* the positions from which a run of capitalized words starts, from
\* position from on
RunStarts(s, from) ==
  {i \in {k \in from..Len(s) : s[k] \in UpperCase} :
     \E j \in {k \in (i + 4)..Len(s) : s[k] \in LowerCase} :
       IsCapitalizedRun(s, i, j)}

\* the end of the longest run that starts at position i
RunEnd(s, i) ==
  Max({j \in {k \in (i + 4)..Len(s) : s[k] \in LowerCase} :
         IsCapitalizedRun(s, i, j)})

\* the leftmost of the successive runs of capitalized words that is longer
\* than n characters, the empty string when there is none
RECURSIVE FirstRunLongerThan(_, _, _)
FirstRunLongerThan(s, from, n) ==
  IF RunStarts(s, from) = {} THEN <<>>
  ELSE LET i == Min(RunStarts(s, from))
           j == RunEnd(s, i)
       IN  IF j - i + 1 > n THEN SubSeq(s, i, j)
           ELSE FirstRunLongerThan(s, j + 1, n)

\* C26: when no template yields a name, the fallback returns the first
\* (leftmost) run of two or more consecutive capitalized words, any run of
\* at least 2 words and more than 2 characters being accepted (a run of 5
\* characters such as "Ab Cd" is returned).
C26_FirstRunOfAnyLength ==
  (call.op = "extract" /\ ~(TemplateMatched /\ CaptureWords # <<>>)) =>
    ret = FirstRunLongerThan(CollapseSpaces(call.text), 1, 2)

\* the lengths of the runs of spaces of a text
SpaceRuns(s) ==
  {RunLen(s, {" "}, i) :
     i \in {k \in 1..Len(s) : s[k] = " " /\ (k = 1 \/ s[k - 1] # " ")}}

\* C27: the first step collapses every run of 2 or 3 consecutive spaces to
\* a single space and trims the text: a text whose runs of spaces all have
\* a length of at most 3 has no two adjacent spaces after the step.
C27_NoAdjacentSpaces ==
  (call.op = "collapse" /\ \A n \in SpaceRuns(call.text) : n <= 3) =>
    /\ \A i \in 1..(Len(ret) - 1) : ~(ret[i] = " " /\ ret[i + 1] = " ")
    /\ ret = strip(ret)

(***************************************************************************)
(* The scoring loop in any order (SpecParallel)                            *)
(***************************************************************************)
\* the match list of the sequential loop and its sort
SequentialMatches ==
  sort_matches(score_users(users, call.extracted_name, 1, {}))

QualifyingEntries ==
  {i \in 1..Len(users) :
     /\ users[i].name # <<>>
     /\ RatGeq(calculate_name_similarity(call.extracted_name, users[i].name),
               <<3, 10>>)}

DistinctIds(list) ==
  \A i, j \in 1..Len(list) : i # j => list[i].id # list[j].id

\* C30: from collections whose ids are pairwise different, after any
\* sequence of add_new_transaction, add_new_user, delete_transaction and
\* delete_user the ids of the transactions are pairwise different and so
\* are the ids of the users: a generated id is never that of a stored
\* record.
C30_IdsPairwiseDistinct ==
  /\ DistinctIds(transactions)
  /\ DistinctIds(users)
  /\ call.op \in {"add_new_transaction", "add_new_user"} =>
       /\ call.op = "add_new_transaction" =>
            \A i \in 1..(Len(transactions) - 1) : transactions[i].id # ret.new_id
       /\ call.op = "add_new_user" =>
            \A i \in 1..(Len(users) - 1) : users[i].id # ret.new_id

\* an add to a collection that holds a generated id: the new id is the next
\* number
C30_Witness ==
  /\ call.op = "add_new_transaction"
  /\ Len(transactions) = 2
  /\ transactions[2].id = ret.new_id
  /\ transactions[1].id = <<"1", "0", "0", "1">>
  /\ ret.new_id = <<"1", "0", "0", "2">>
  /\ transactions[1].description # <<>>
====
